---- MODULE Spec2Model ----
(***************************************************************************)
(* The canvas goroutine of imgv (canvas.go): the single goroutine that     *)
(* owns the viewer's state (imgs, current, origin, panStart, panOrigin,    *)
(* imgLoadChans) and changes it by receiving from unbuffered channels.     *)
(*                                                                         *)
(* Every channel of canvas.go is unbuffered, so a send and its receive are *)
(* one rendezvous.  Under Spec a producer's send, the select's receive and *)
(* the case body are one step.  The one place where the canvas goroutine   *)
(* itself sends (imgLoadChans[i] <- struct{}{}, line 106) is a position of *)
(* its own (pc = "trigger"): the send completes in a second step, with the *)
(* load worker of that image.  A Go panic (nil pointer, index out of       *)
(* range) ends the goroutine and the process: pc = "crashed".              *)
(***************************************************************************)
EXTENDS Integers, Sequences, FiniteSets, TLC

\* ------------------------------------------------------------------ bounds

\* The largest number of images (nimgs) the viewer is started with.
MaxN == 2
\* Pointer positions of pan events have coordinates 0..MaxPt.
MaxPt == 1
\* The displacement of the "jump far away" view transform sent on drawChan.
Far == 5
\* SpecFifo, FairSpec: how many messages the event layer sends in all.
MaxSends == 3
\* SpecClamp: widths and heights of windows and images are 1..MaxDim.
MaxDim == 2
\* SpecClamp: the minimum corner of an image's bounds has coordinates
\* -MaxMin..MaxMin.
MaxMin == 1

\* ------------------------------------------------------------------ values

Pt(x, y) == [X |-> x, Y |-> y]

\* image.Point{}
ZP == Pt(0, 0)

Min2(a, b) == IF a < b THEN a ELSE b

Max2(a, b) == IF a > b THEN a ELSE b

\* A nil *vimage.
Nil == [name |-> -1, minX |-> 0, minY |-> 0, dx |-> 0, dy |-> 0]

\* The image the load worker of index i builds: its name (names[i]) and its
\* Bounds(): Min = (minX, minY), Dx() = dx, Dy() = dy.
Image(i) ==
    CASE i = 0 -> [name |-> 0, minX |-> 0, minY |-> 0, dx |-> 4, dy |-> 3]
      [] i = 1 -> [name |-> 1, minX |-> 1, minY |-> 1, dx |-> 3, dy |-> 1]
      [] i = 2 -> [name |-> 2, minX |-> 0, minY |-> 0, dx |-> 1, dy |-> 1]
      [] OTHER -> [name |-> i, minX |-> 0, minY |-> 0, dx |-> 2, dy |-> 4]

\* canvas.go:120 storing into the current slot instead of img.index.
StoreAtCurrent(slots, at, index, img) == [slots EXCEPT ![at] = img]

\* imgs[img.index] = img.img (at is the value of current).
StoreImage(slots, at, index, img) == [slots EXCEPT ![index] = img]

\* The window's geometry when the canvas starts.
InitGeom == [w |-> 2, h |-> 2]

\* Pointer positions carried by panStartChan and panStepChan.
Pts == {Pt(x, y) : x \in 0..MaxPt, y \in 0..MaxPt}

\* The functions sent on drawChan: repaint as is, go to the top left corner,
\* jump far towards the bottom right corner.
Funs == {"id", "zero", "far"}

funpt(f, pt) ==
    CASE f = "id"   -> pt
      [] f = "zero" -> ZP
      [] OTHER      -> Pt(pt.X + Far, pt.Y + Far)

\* The goroutines of the event layer that send to the canvas, and what each
\* sends.  The load workers send on imgChan.
Producers == {"nav", "pan", "resize", "draw"}

Msg(kind, pt, f) == [kind |-> kind, pt |-> pt, f |-> f]

NoMsg == Msg("none", ZP, "")

\* The pointer positions of the pan messages of a blocked sender: a drag
\* along the diagonal.
DragPts == {Pt(x, x) : x \in 0..MaxPt}

MsgsOf(p) ==
    CASE p = "nav"    -> {Msg("prev", ZP, ""), Msg("next", ZP, "")}
      [] p = "pan"    -> {Msg(k, pt, "") : k \in {"panStart", "panStep"}, pt \in DragPts}
                            \cup {Msg("panEnd", ZP, "")}
      [] p = "resize" -> {Msg("resize", ZP, "")}
      [] OTHER        -> {Msg("draw", ZP, f) : f \in Funs}

\* SpecClamp: the arguments originTrans is applied to.  The points reach
\* beyond every clamp limit on both sides.
ClampPts ==
    {Pt(x, y) : x \in (0 - MaxMin - 1)..(MaxDim + MaxMin),
                y \in (0 - MaxMin - 1)..(MaxDim + MaxMin)}

ClampWins == {[w |-> w, h |-> h] : w \in 1..MaxDim, h \in 1..MaxDim}

ClampImgs ==
    {[name |-> 0, minX |-> mx, minY |-> my, dx |-> dx, dy |-> dy] :
        mx \in (0 - MaxMin)..MaxMin, my \in (0 - MaxMin)..MaxMin,
        dx \in 1..MaxDim, dy \in 1..MaxDim}
      \cup {Nil}

\* Window titles: never set, "<name> - Loading...", "<name> (<w>x<h>)".
NoTitle == [name |-> -1, loading |-> FALSE, w |-> 0, h |-> 0]

LoadingTitle(i) == [name |-> i, loading |-> TRUE, w |-> 0, h |-> 0]

SizeTitle(img) == [name |-> img.name, loading |-> FALSE, w |-> img.dx, h |-> img.dy]

\* ------------------------------------------------------------------ state

VARIABLES
    nimgs,         \* len(imgs), fixed at start
    imgs,          \* imgs[i]: Nil or the loaded image
    current,
    origin,
    panStart,
    panOrigin,
    imgLoadChans,  \* imgLoadChans[i]: TRUE while the canvas holds the channel (non-nil)
    geom,          \* window.Geom: [w, h]
    title,         \* the window's name as last set by nameSet
    shown,         \* names of the images painted since the window was last cleared
    pc,            \* "idle" (at the select), "trigger" (at the send of line 106), "crashed"
    worker,        \* worker[i]: "dormant" (at <-imgLoadChans[i]), "loading", "done"
    fires,         \* fires[i]: how often line 106 was executed for i
    fx,            \* what the last received message did to the window
    panning,       \* a pan gesture is in progress: pan-start received, pan-end not yet
    pending,       \* pending[p]: the message producer p is blocked sending, or NoMsg
    sent,          \* sent[p]: the messages p has sent so far, in order
    log,           \* the messages received so far, in order, each with whether
                   \* its case body has finished
    cin,           \* SpecClamp: the arguments originTrans is applied to
    cout           \* SpecClamp: its results, the second from the first as the point

core == <<nimgs, imgs, current, origin, panStart, panOrigin, imgLoadChans, geom,
          title, shown, pc, worker, fires, fx, panning>>

hist == <<pending, sent, log>>

pure == <<cin, cout>>

vars == <<core, hist, pure>>

Idx == 0..(nimgs - 1)

\* ------------------------------------------------------------------ pure functions

\* originTrans that clamps to [0, dw] and adds the image's minimum afterwards.
originTransOffsetAfter(pt, win, img) ==
    IF img = Nil THEN ZP
    ELSE LET dw == img.dx - win.w
             dh == img.dy - win.h
             x  == Min2(dw, Max2(pt.X, 0)) + img.minX
             y  == Min2(dh, Max2(pt.Y, 0)) + img.minY
         IN  Pt(IF img.dx < win.w THEN 0 ELSE x,
                IF img.dy < win.h THEN 0 ELSE y)

\* originTrans without the validation of lines 173-181.
originTransNoPin(pt, win, img) ==
    IF img = Nil THEN ZP
    ELSE LET dw == img.dx - win.w
             dh == img.dy - win.h
         IN  Pt(Min2(img.minX + dw, Max2(pt.X, 0)),
                Min2(img.minY + dh, Max2(pt.Y, 0)))

\* originTrans: the origin with respect to the image and the canvas size.
originTrans(pt, win, img) ==
    IF img = Nil THEN ZP
    ELSE LET dw == img.dx - win.w
             dh == img.dy - win.h
             x  == Min2(img.minX + dw, Max2(pt.X, 0))
             y  == Min2(img.minY + dh, Max2(pt.Y, 0))
         IN  Pt(IF img.dx < win.w THEN 0 ELSE x,
                IF img.dy < win.h THEN 0 ELSE y)

\* The rectangle show asks SubImage for: image.Rect(pt.X, pt.Y, pt.X+w, pt.Y+h).
PaintRect(pt, win) ==
    [x0 |-> pt.X, y0 |-> pt.Y, x1 |-> pt.X + win.w, y1 |-> pt.Y + win.h]

\* show: the paint calls it makes (none for a nil image).
showPaints(win, img, pt) ==
    IF img = Nil THEN <<>>
    ELSE <<[img |-> img.name, rect |-> PaintRect(originTrans(pt, win, img), win)]>>

\* show: the window's name after it.
showTitle(img, old) == IF img = Nil THEN old ELSE SizeTitle(img)

\* show: the images on the window after it.
showShown(img, old) == IF img = Nil THEN old ELSE old \cup {img.name}

\* show: the nameSet calls it makes.
showTitles(img) == IF img = Nil THEN 0 ELSE 1

\* Normalize with the upper test off by one (i > len(imgs)).
NormalizeOffByOne(i) ==
    LET j == IF i > nimgs THEN 0 ELSE i
    IN  IF j < 0 THEN nimgs - 1 ELSE j

\* Normalize that stops at the ends instead of wrapping.
NormalizeNoWrap(i) ==
    IF i >= nimgs THEN nimgs - 1 ELSE IF i < 0 THEN 0 ELSE i

\* setImage's wraparound of the index.
Normalize(i) ==
    LET j == IF i >= nimgs THEN 0 ELSE i
    IN  IF j < 0 THEN nimgs - 1 ELSE j

\* setImage without window.ClearAll().
NeedsClearNever(i) == FALSE

\* setImage clears the window when the image changes (line 97).
NeedsClear(i) == current # i

\* The imgChan case never showing the image it stored.
IsCurrentNever(index) == FALSE

\* The imgChan case without its test of the index.
IsCurrentAlways(index) == TRUE

\* The imgChan case paints only when the loaded image is the current one.
IsCurrent(index) == current = index

\* setImage never sending on the load channel.
TriggerPendingNever(chans, i) == FALSE

\* imgLoadChans[i] != nil (line 105): the trigger of i has not been sent yet.
TriggerPending(chans, i) == chans[i]

\* Line 107 left out: the canvas keeps the channel.
ConsumeTriggerKeep(chans, i) == chans

\* imgLoadChans[i] = nil, after the send.
ConsumeTrigger(chans, i) == [chans EXCEPT ![i] = FALSE]

\* window.Resize(w, h): the window takes that size.
WindowResize(w, h) == [w |-> w, h |-> h]

\* What a message did: the message, current before it, the point setImage was
\* called with, the paint calls, the number of nameSet calls, whether ClearAll
\* was called, whether line 106 ran.
Effects(m, cand, paints, titles, cleared, fired) ==
    [msg |-> m, from |-> current, cand |-> cand, paints |-> paints,
     titles |-> titles, cleared |-> cleared, fired |-> fired]

\* ------------------------------------------------------------------ the canvas goroutine

InitCanvas ==
    /\ nimgs \in 1..MaxN
    /\ imgs = [i \in 0..(nimgs - 1) |-> Nil]
    /\ current = 0
    /\ origin = ZP
    /\ panStart = ZP
    /\ panOrigin = ZP
    /\ imgLoadChans = [i \in 0..(nimgs - 1) |-> TRUE]
    /\ geom = InitGeom
    /\ title = NoTitle
    /\ shown = {}
    /\ pc = "idle"
    /\ worker = [i \in 0..(nimgs - 1) |-> "dormant"]
    /\ fires = [i \in 0..(nimgs - 1) |-> 0]
    /\ fx = [msg |-> "none", from |-> 0, cand |-> ZP, paints |-> <<>>, titles |-> 0,
             cleared |-> FALSE, fired |-> FALSE]
    /\ panning = FALSE
    /\ pending = [p \in Producers |-> NoMsg]
    /\ sent = [p \in Producers |-> <<>>]
    /\ log = <<>>

Init ==
    /\ InitCanvas
    /\ cin = [pt |-> ZP, win |-> InitGeom, img |-> Nil]
    /\ cout = <<>>

\* setImage(i0, pt), called for message m.  It leaves panStart, panOrigin and
\* the window's geometry alone.
setImage(i0, pt, m) ==
    LET i == Normalize(i0)
        cleared == NeedsClear(i)
    IN  /\ current' = i
        /\ UNCHANGED <<nimgs, imgs, imgLoadChans, geom, worker>>
        /\ IF i \notin Idx
           THEN \* imgs[i]: index out of range
                /\ pc' = "crashed"
                /\ shown' = IF cleared THEN {} ELSE shown
                /\ fx' = Effects(m, pt, <<>>, 0, cleared, FALSE)
                /\ UNCHANGED <<origin, title, fires>>
           ELSE IF imgs[i] = Nil
           THEN /\ title' = LoadingTitle(i)
                /\ shown' = IF cleared THEN {} ELSE shown
                /\ fx' = Effects(m, pt, <<>>, 1, cleared, TriggerPending(imgLoadChans, i))
                /\ origin' = origin
                /\ IF TriggerPending(imgLoadChans, i)
                   THEN /\ pc' = "trigger"
                        /\ fires' = [fires EXCEPT ![i] = @ + 1]
                   ELSE /\ pc' = "idle"
                        /\ fires' = fires
           ELSE /\ origin' = originTrans(pt, geom, imgs[i])
                /\ shown' = showShown(imgs[i], IF cleared THEN {} ELSE shown)
                /\ title' = showTitle(imgs[i], title)
                /\ fx' = Effects(m, pt, showPaints(geom, imgs[i], origin'),
                                 showTitles(imgs[i]), cleared, FALSE)
                /\ pc' = "idle"
                /\ fires' = fires

\* The load worker of index i waits for its trigger: <-imgLoadChans[i].
WorkerAtReceive(i) == worker[i] = "dormant"

\* The load worker of index i was triggered and has not yet sent its image.
WorkerLoading(i) == worker[i] = "loading"

\* The send of line 106 meets the receive of the load worker; then line 107.
LoadTrigger ==
    /\ pc = "trigger"
    /\ WorkerAtReceive(current)
    /\ worker' = [worker EXCEPT ![current] = "loading"]
    /\ imgLoadChans' = ConsumeTrigger(imgLoadChans, current)
    /\ pc' = "idle"
    /\ UNCHANGED <<nimgs, imgs, current, origin, panStart, panOrigin, geom, title,
                   shown, fires, fx, panning>>

\* case img := <-imgChan, sent by the load worker of index.
imgChanCase(index) ==
    /\ imgs' = StoreImage(imgs, current, index, Image(index))
    /\ worker' = [worker EXCEPT ![index] = "done"]
    /\ IF IsCurrent(index)
       THEN /\ shown' = showShown(imgs'[current], shown)
            /\ title' = showTitle(imgs'[current], title)
            /\ fx' = Effects("img", ZP, showPaints(geom, imgs'[current], origin),
                             showTitles(imgs'[current]), FALSE, FALSE)
       ELSE /\ fx' = Effects("img", ZP, <<>>, 0, FALSE, FALSE)
            /\ UNCHANGED <<shown, title>>
    /\ UNCHANGED <<nimgs, current, origin, panStart, panOrigin, imgLoadChans, geom,
                   pc, fires, panning>>

\* case funpt := <-drawChan
drawChanCase(f) ==
    /\ setImage(current, funpt(f, origin), "draw")
    /\ UNCHANGED <<panStart, panOrigin, panning>>

\* case <-resizeToImageChan
resizeToImageChanCase ==
    /\ IF imgs[current] = Nil
       THEN \* imgs[current].Bounds() on a nil *vimage
            /\ pc' = "crashed"
            /\ geom' = geom
       ELSE /\ pc' = "idle"
            /\ geom' = WindowResize(imgs[current].dx, imgs[current].dy)
    /\ fx' = Effects("resize", ZP, <<>>, 0, FALSE, FALSE)
    /\ UNCHANGED <<nimgs, imgs, current, origin, panStart, panOrigin, imgLoadChans,
                   title, shown, worker, fires, panning>>

\* The prevImg case passing the stored origin instead of image.Point{0, 0}.
prevImgCaseKeepOrigin ==
    /\ setImage(current - 1, origin, "prev")
    /\ UNCHANGED <<panStart, panOrigin, panning>>

\* case <-prevImg
prevImgCase ==
    /\ setImage(current - 1, ZP, "prev")
    /\ UNCHANGED <<panStart, panOrigin, panning>>

\* case <-nextImg
nextImgCase ==
    /\ setImage(current + 1, ZP, "next")
    /\ UNCHANGED <<panStart, panOrigin, panning>>

\* The panStartChan case without panOrigin = origin (line 137).
panStartChanCaseNoOrigin(pt) ==
    /\ panStart' = pt
    /\ panOrigin' = panOrigin
    /\ panning' = TRUE
    /\ fx' = Effects("panStart", ZP, <<>>, 0, FALSE, FALSE)
    /\ UNCHANGED <<nimgs, imgs, current, origin, imgLoadChans, geom, title, shown,
                   pc, worker, fires>>

\* case pt := <-panStartChan
panStartChanCase(pt) ==
    /\ panStart' = pt
    /\ panOrigin' = origin
    /\ panning' = TRUE
    /\ fx' = Effects("panStart", ZP, <<>>, 0, FALSE, FALSE)
    /\ UNCHANGED <<nimgs, imgs, current, origin, imgLoadChans, geom, title, shown,
                   pc, worker, fires>>

\* case pt := <-panStepChan
panStepChanCase(pt) ==
    /\ setImage(current,
                Pt((panStart.X - pt.X) + panOrigin.X, (panStart.Y - pt.Y) + panOrigin.Y),
                "panStep")
    /\ UNCHANGED <<panStart, panOrigin, panning>>

\* The panEndChan case resetting panStart only.
panEndChanCaseKeepOrigin ==
    /\ panStart' = ZP
    /\ panOrigin' = panOrigin
    /\ panning' = FALSE
    /\ fx' = Effects("panEnd", ZP, <<>>, 0, FALSE, FALSE)
    /\ UNCHANGED <<nimgs, imgs, current, origin, imgLoadChans, geom, title, shown,
                   pc, worker, fires>>

\* case <-panEndChan
panEndChanCase ==
    /\ panStart' = ZP
    /\ panOrigin' = ZP
    /\ panning' = FALSE
    /\ fx' = Effects("panEnd", ZP, <<>>, 0, FALSE, FALSE)
    /\ UNCHANGED <<nimgs, imgs, current, origin, imgLoadChans, geom, title, shown,
                   pc, worker, fires>>

\* ------------------------------------------------------------------ Spec: one step per message

\* A select that receives while a case body is still running.
AtSelectAnytime == pc # "crashed"

\* The select receives only while the goroutine is at it.
AtSelect == pc = "idle"

LoadDone ==
    /\ AtSelect
    /\ \E i \in Idx : WorkerLoading(i) /\ imgChanCase(i)
    /\ UNCHANGED <<hist, pure>>

Draw ==
    /\ AtSelect
    /\ \E f \in Funs : drawChanCase(f)
    /\ UNCHANGED <<hist, pure>>

ResizeToImage ==
    /\ AtSelect
    /\ resizeToImageChanCase
    /\ UNCHANGED <<hist, pure>>

PrevImg ==
    /\ AtSelect
    /\ prevImgCase
    /\ UNCHANGED <<hist, pure>>

NextImg ==
    /\ AtSelect
    /\ nextImgCase
    /\ UNCHANGED <<hist, pure>>

PanStart ==
    /\ AtSelect
    /\ \E pt \in Pts : panStartChanCase(pt)
    /\ UNCHANGED <<hist, pure>>

PanStep ==
    /\ AtSelect
    /\ \E pt \in Pts : panStepChanCase(pt)
    /\ UNCHANGED <<hist, pure>>

PanEnd ==
    /\ AtSelect
    /\ panEndChanCase
    /\ UNCHANGED <<hist, pure>>

Trigger ==
    /\ LoadTrigger
    /\ UNCHANGED <<hist, pure>>

Next ==
    \/ LoadDone
    \/ Draw
    \/ ResizeToImage
    \/ PrevImg
    \/ NextImg
    \/ PanStart
    \/ PanStep
    \/ PanEnd
    \/ Trigger

Spec == Init /\ [][Next]_vars

\* ------------------------------------------------------------------ SpecFifo: blocked senders

\* Under SpecFifo a producer's send is a step of its own: the producer blocks
\* (pending) until the select receives its message.  The event layer sends at
\* most MaxSends messages.

Sends == Len(sent["nav"]) + Len(sent["pan"]) + Len(sent["resize"]) + Len(sent["draw"])

\* The case body the select runs for message m.
Case(m) ==
    CASE m.kind = "draw"     -> drawChanCase(m.f)
      [] m.kind = "resize"   -> resizeToImageChanCase
      [] m.kind = "prev"     -> prevImgCase
      [] m.kind = "next"     -> nextImgCase
      [] m.kind = "panStart" -> panStartChanCase(m.pt)
      [] m.kind = "panStep"  -> panStepChanCase(m.pt)
      [] OTHER               -> panEndChanCase

\* Producer p starts a send on its channel.
Offer(p) ==
    /\ pc # "crashed"
    /\ pending[p] = NoMsg
    /\ Sends < MaxSends
    /\ \E m \in MsgsOf(p) :
          /\ pending' = [pending EXCEPT ![p] = m]
          /\ sent' = [sent EXCEPT ![p] = Append(@, m)]
    /\ UNCHANGED <<core, log, pure>>

\* The select receives the message of producer p and runs its case.
Recv(p) ==
    /\ AtSelect
    /\ pending[p] # NoMsg
    /\ Case(pending[p])
    /\ pending' = [pending EXCEPT ![p] = NoMsg]
    /\ log' = Append(log, [p |-> p, m |-> pending[p], done |-> pc' = "idle"])
    /\ UNCHANGED <<sent, pure>>

\* The select receives the image of a load worker.
RecvImg ==
    /\ AtSelect
    /\ \E i \in Idx :
          /\ WorkerLoading(i)
          /\ imgChanCase(i)
          /\ log' = Append(log, [p |-> "load", m |-> Msg("img", Pt(i, i), ""),
                                  done |-> TRUE])
    /\ UNCHANGED <<pending, sent, pure>>

\* The send of the load trigger completes, and with it the case that made it.
RecvTrigger ==
    /\ LoadTrigger
    /\ log' = [log EXCEPT ![Len(log)].done = TRUE]
    /\ UNCHANGED <<pending, sent, pure>>

NextFifo ==
    \/ \E p \in Producers : Offer(p)
    \/ \E p \in Producers : Recv(p)
    \/ RecvImg
    \/ RecvTrigger

SpecFifo == Init /\ [][NextFifo]_vars

\* Go's select chooses among the ready channels at random, so a sender that
\* stays blocked is received from; the load worker at its receive takes the
\* trigger.  Nothing makes a load worker finish.
FairSpec ==
    /\ Init
    /\ [][NextFifo]_vars
    /\ \A p \in Producers : SF_vars(Recv(p))
    /\ WF_vars(RecvTrigger)

\* ------------------------------------------------------------------ SpecClamp: originTrans alone

\* originTrans applied to every point, window size and image bounds of the
\* bounded sets, and then once more to its own result.  The canvas does not
\* run.
InitClamp ==
    /\ InitCanvas
    /\ nimgs = 1
    /\ cin \in [pt : ClampPts, win : ClampWins, img : ClampImgs]
    /\ cout = <<>>

ClampOnce ==
    /\ Len(cout) = 0
    /\ cout' = <<originTrans(cin.pt, cin.win, cin.img)>>
    /\ UNCHANGED <<core, hist, cin>>

ClampTwice ==
    /\ Len(cout) = 1
    /\ cout' = Append(cout, originTrans(cout[1], cin.win, cin.img))
    /\ UNCHANGED <<core, hist, cin>>

NextClamp ==
    \/ ClampOnce
    \/ ClampTwice

SpecClamp == InitClamp /\ [][NextClamp]_vars

\* ------------------------------------------------------------------ properties

Loaded(i) == i \in Idx /\ imgs[i] # Nil

\* The messages that call setImage.
SetImageMsgs == {"draw", "prev", "next", "panStep"}

\* C1: whenever the current image is loaded, the stored origin is a fixed
\* point of originTrans for that image and the window's geometry.
OriginWithinClampRange ==
    Loaded(current) => origin = originTrans(origin, geom, imgs[current])

\* C2: a resize-to-image request received while the current image is not
\* loaded is ignored: the canvas goroutine is back at its select with current,
\* origin, the pan state and the images unchanged.
ResizeOfUnloadedIgnored ==
    [][(ResizeToImage /\ imgs[current] = Nil)
         => (pc' = "idle" /\ UNCHANGED <<current, origin, panStart, panOrigin, imgs>>)]_vars

\* C3: the canvas goroutine is at its select, or at the send of a load
\* trigger whose worker is at the receive.
CanvasNeverStuck ==
    \/ pc = "idle"
    \/ pc = "trigger" /\ current \in Idx /\ worker[current] = "dormant"

\* C4: the send of the load trigger of an image is executed at most once.
TriggerFiredAtMostOnce == \A i \in Idx : fires[i] <= 1

\* C4 witness: setImage landed on an image that is still loading and whose
\* trigger was fired before; it did not fire it again.
RevisitedLoadingSlot ==
    /\ fx.msg \in SetImageMsgs
    /\ pc = "idle"
    /\ imgs[current] = Nil
    /\ ~fx.fired
    /\ fires[current] = 1
    /\ worker[current] = "loading"

\* C5: after a next request current is (current + 1) mod N, after a previous
\* request (current - 1 + N) mod N, of current before the request.
NavigationWraps ==
    /\ fx.msg = "next" => current = (fx.from + 1) % nimgs
    /\ fx.msg = "prev" => current = (fx.from - 1 + nimgs) % nimgs

\* C5 witness: previous from index 0 landed on N-1, with N the largest count.
PrevWrapped == fx.msg = "prev" /\ fx.from = 0 /\ current = nimgs - 1 /\ nimgs = MaxN

\* C6: current is an index of imgs.
CurrentInRange == nimgs >= 1 /\ current \in 0..(nimgs - 1)

\* C6 witness: next from the last index landed on 0.
NextWrapped == fx.msg = "next" /\ fx.from = nimgs - 1 /\ current = 0 /\ nimgs > 1

\* The step in which the canvas receives the image of index i.
Completes(i) == worker[i] = "loading" /\ worker'[i] = "done"

\* C7: a load completion never changes current, origin or the pan state;
\* for an index other than current it stores the image in that slot and
\* does nothing else: no paint, no window name, no trigger.
LoadCompletionFrame ==
    [][\A i \in Idx : Completes(i) =>
          /\ UNCHANGED <<current, origin, panStart, panOrigin>>
          /\ i # current =>
                /\ imgs' = [imgs EXCEPT ![i] = Image(i)]
                /\ fx'.paints = <<>>
                /\ fx'.titles = 0
                /\ ~fx'.cleared
                /\ UNCHANGED <<title, shown, fires, imgLoadChans, pc, geom>>]_vars

\* C7 witness: an image other than the current one arrived while the current
\* one was loaded and painted.
LoadedInBackground ==
    /\ fx.msg = "img"
    /\ fx.titles = 0
    /\ Loaded(current)
    /\ \E i \in Idx : i # current /\ Loaded(i)

\* The messages of producer p among the received ones, in order.
Received(p) ==
    LET es == SelectSeq(log, LAMBDA e : e.p = p)
    IN  [k \in 1..Len(es) |-> es[k].m]

\* How many images of index i the canvas has received.
ImagesReceived(i) ==
    Cardinality({k \in 1..Len(log) : log[k].p = "load" /\ log[k].m.pt = Pt(i, i)})

\* C8: what the canvas has received from a producer is, in order and once
\* each, what that producer has sent, up to the message it is blocked on; a
\* load worker's image is received once; and only the last received message
\* can be unfinished, with the goroutine away from its select.
PerProducerFifo ==
    /\ \A p \in Producers :
          sent[p] = Received(p) \o (IF pending[p] = NoMsg THEN <<>> ELSE <<pending[p]>>)
    /\ \A i \in Idx : ImagesReceived(i) = (IF worker[i] = "done" THEN 1 ELSE 0)
    /\ \A k \in 1..Len(log) : ~log[k].done => (k = Len(log) /\ pc # "idle")
    /\ pc = "idle" => \A k \in 1..Len(log) : log[k].done

\* C8 witness: two different pan messages were processed in the order sent,
\* with a navigation message processed between them.
InterleavedProducers ==
    /\ Len(log) = 3
    /\ log[1].p = "pan" /\ log[2].p = "nav" /\ log[3].p = "pan"
    /\ log[1].m # log[3].m
    /\ sent["pan"] = <<log[1].m, log[3].m>>
    /\ \A k \in 1..3 : log[k].done

\* 0: unloaded, 1: loading (trigger fired), 2: loaded.
SlotState(slots, fired, i) ==
    IF slots[i] # Nil THEN 2 ELSE IF fired[i] > 0 THEN 1 ELSE 0

\* C9: a slot moves only unloaded -> loading -> loaded, one stage at a time
\* and never back, and a loaded slot keeps the image it holds.
SlotLifecycle ==
    [][\A i \in Idx :
          /\ SlotState(imgs', fires', i) \in
                {SlotState(imgs, fires, i), SlotState(imgs, fires, i) + 1}
          /\ imgs[i] # Nil => imgs'[i] = imgs[i]]_vars

\* C9 witness: an image arrived in its slot while another slot, whose
\* trigger was fired, was still loading.
SlotLoadedBesideLoading ==
    /\ fx.msg = "img"
    /\ \E i, k \in Idx :
          /\ Loaded(i)
          /\ imgs[k] = Nil /\ fires[k] = 1 /\ worker[k] = "loading"

\* C10: a previous/next request that a producer is blocked on is eventually
\* received, also while the load worker of the current slot never finishes.
NavigationEventuallyReceived ==
    (pending["nav"] # NoMsg) ~> (pending["nav"] = NoMsg)

\* C11: applying originTrans to its own result, with the same window size and
\* image bounds, gives that result again.
ClampIdempotent == Len(cout) = 2 => cout[2] = cout[1]

\* originTrans was applied twice to a point it had to move, for an image whose
\* bounds do not start at (0, 0), and the result is not the corner.
ClampedTwiceOffCorner ==
    /\ Len(cout) = 2
    /\ cin.img # Nil
    /\ cin.img.minX # 0
    /\ cin.img.minY # 0
    /\ cout[1] # cin.pt
    /\ cout[1].X # 0
    /\ cout[1].Y # 0

\* C12: for a loaded image the result of originTrans lies, in each axis,
\* between 0 and max(0, image size - window size), that limit taken from the
\* minimum corner of the image's bounds.
ClampWithinRange ==
    (Len(cout) >= 1 /\ cin.img # Nil) =>
        /\ cout[1].X >= 0
        /\ cout[1].X <= Max2(0, cin.img.minX + (cin.img.dx - cin.win.w))
        /\ cout[1].Y >= 0
        /\ cout[1].Y <= Max2(0, cin.img.minY + (cin.img.dy - cin.win.h))

\* C13: for a loaded image narrower than the window the result of originTrans
\* has X = 0, and for one lower than the window it has Y = 0, whatever the
\* other axis, the point and the minimum corner of the image's bounds are.
SmallImagePinned ==
    (Len(cout) >= 1 /\ cin.img # Nil) =>
        /\ cin.img.dx < cin.win.w => cout[1].X = 0
        /\ cin.img.dy < cin.win.h => cout[1].Y = 0

\* originTrans was applied to an image narrower but not lower than the window,
\* with bounds that do not start at (0, 0), and the result has X = 0 with a
\* point and a result that are elsewhere in the other axis.
PinnedInOneAxis ==
    /\ Len(cout) >= 1
    /\ cin.img # Nil
    /\ cin.img.dx < cin.win.w
    /\ cin.img.dy > cin.win.h
    /\ cin.img.minX # 0
    /\ cin.pt.X # 0
    /\ cout[1].X = 0
    /\ cout[1].Y # 0

\* A pan-step at the position of the pan-start received just before it.
PanStepAtStart == fx.msg = "panStart" /\ AtSelect /\ panStepChanCase(panStart)

\* C14: a pan-start followed at once by a pan-step at the same position leaves
\* current as it is and stores originTrans of the origin held at the
\* pan-start, whether the current slot holds an image or not.
PanRoundTripClamps ==
    [][PanStepAtStart =>
          /\ current' = current
          /\ origin' = originTrans(origin, geom, imgs[current])]_vars

\* C14 as amended: a pan-start followed at once by a pan-step at the same
\* position leaves current as it is; it stores originTrans of the origin held
\* at the pan-start when the current slot holds an image, and leaves the
\* stored origin as it is when the slot holds none.
PanRoundTrip ==
    [][PanStepAtStart =>
          /\ current' = current
          /\ origin' = IF imgs[current] = Nil THEN origin
                        ELSE originTrans(origin, geom, imgs[current])]_vars

\* A pan-step with no displacement from the pan-start was received while the
\* current slot holds no image and the stored origin is not (0, 0).
PanStepOnUnloadedSlot ==
    /\ fx.msg = "panStep"
    /\ panning
    /\ fx.cand = panOrigin
    /\ origin = panOrigin
    /\ origin # ZP
    /\ ~Loaded(current)

\* C15: after a Previous or Next message whose target slot holds an image
\* with bounds starting at (0, 0), the stored origin is (0, 0), and the
\* message painted that image exactly once, at (0, 0), and set the title to
\* the image's name and size.
NavShowsAtZero ==
    (/\ fx.msg \in {"prev", "next"}
     /\ Loaded(current)
     /\ imgs[current].minX = 0
     /\ imgs[current].minY = 0) =>
        /\ origin = ZP
        /\ fx.paints = <<[img |-> imgs[current].name, rect |-> PaintRect(ZP, geom)]>>
        /\ fx.titles = 1
        /\ title = SizeTitle(imgs[current])

\* A Previous message went from another image to a loaded one with bounds
\* starting at (0, 0), in the middle of a pan gesture begun at an origin
\* other than (0, 0).
PrevToLoadedWhilePanning ==
    /\ fx.msg = "prev"
    /\ fx.from # current
    /\ Loaded(current)
    /\ imgs[current].minX = 0
    /\ imgs[current].minY = 0
    /\ panning
    /\ panOrigin # ZP
    /\ origin = ZP

\* C16: every rectangle the last message asked SubImage for lies within the
\* bounds of the image it painted.
PaintWithinBounds ==
    \A k \in 1..Len(fx.paints) :
        LET r == fx.paints[k].rect
            b == Image(fx.paints[k].img)
        IN  /\ r.x0 >= b.minX
            /\ r.y0 >= b.minY
            /\ r.x1 <= b.minX + b.dx
            /\ r.y1 <= b.minY + b.dy

\* C17: while no pan gesture is in progress (before the first pan-start, and
\* from a pan-end to the next pan-start) panStart and panOrigin are both
\* image.Point{}.
PanStateZeroOutsideGesture == ~panning => (panStart = ZP /\ panOrigin = ZP)

\* A pan-end was received, on a loaded image scrolled away from (0, 0).
PanEndedOnScrolledImage ==
    /\ fx.msg = "panEnd"
    /\ ~panning
    /\ Loaded(current)
    /\ origin # ZP
    /\ panStart = ZP
    /\ panOrigin = ZP

\* C18: the images painted since the window was last cleared are the image
\* at current and no other; the last message painted nothing but the image at
\* current; and a message that changed current cleared the window.
NoStaleImage ==
    /\ shown \subseteq (IF Loaded(current) THEN {imgs[current].name} ELSE {})
    /\ \A k \in 1..Len(fx.paints) :
          Loaded(current) /\ fx.paints[k].img = imgs[current].name
    /\ fx.from # current => fx.cleared

\* A Next message went from one loaded image to another loaded image: the
\* window was cleared and shows the new image only.
SwitchedBetweenLoadedImages ==
    /\ fx.msg = "next"
    /\ fx.from # current
    /\ Loaded(fx.from)
    /\ Loaded(current)
    /\ fx.cleared
    /\ shown = {imgs[current].name}

\* C19: once the title has been set, it names the image at current: it is
\* "<name> - Loading..." exactly when the slot at current holds no image and
\* "<name> (<w>x<h>)" of the image in the slot exactly when it holds one.
TitleNamesCurrent ==
    title # NoTitle =>
        title = IF imgs[current] = Nil THEN LoadingTitle(current)
                ELSE SizeTitle(imgs[current])

\* The load completion of the current image replaced the Loading title by the
\* image's name and size, while another slot is still empty.
TitleTurnedToSize ==
    /\ fx.msg = "img"
    /\ fx.titles = 1
    /\ Loaded(current)
    /\ title = SizeTitle(imgs[current])
    /\ \E i \in Idx : imgs[i] = Nil

SwitchedOnce == title # NoTitle

====
